---- MODULE Spec2Model ----
(***************************************************************************)
(* Milki-backend, structure routers (work, zone, group) and the WeeklyTask *)
(* table.  A request is matched against a router's route table in          *)
(* registration order and then walks the handlers of the matched route     *)
(* one at a time: checkPermission, the validation step where the route     *)
(* has one, and the controller.                                            *)
(***************************************************************************)
EXTENDS Integers, Sequences, FiniteSets, TLC

\* ------------------------------------------------------------------ bounds
MaxWorks == 2
MaxTasks == 3
MaxBatch == 2
MaxZones == 1
MaxGroups == 1
MaxReqs == 2

\* ------------------------------------------------------------ identifiers
NULL == <<"null", 0>>
NoId == <<"none", 0>>
WorkIds == {<<"w", i>> : i \in 1..MaxWorks}
TaskIds == {<<"t", i>> : i \in 1..MaxTasks}
ZoneIds == {<<"z", i>> : i \in 1..MaxZones}
GroupIds == {<<"g", i>> : i \in 1..MaxGroups}
Users == {<<"u", 1>>, <<"u", 2>>}
SectorIds == {1, 2}
ExistingSectors == {1}
WeekNumbers == {4}
PickedStatus == "assigned"
PatchStatuses == {"unassigned", "done"}

Range(f) == {f[i] : i \in DOMAIN f}
SeqsUpTo(S, n) == UNION {[1..k -> S] : k \in 0..n}

\* ------------------------------------------------------------ route tables
Lit(s) == [kind |-> "lit", name |-> s]
Param(s) == [kind |-> "param", name |-> s]
Perm(s) == [kind |-> "perm", name |-> s]
Valid(s) == [kind |-> "valid", name |-> s]
Ctrl(s) == [kind |-> "ctrl", name |-> s]
Route(v, p, h) == [verb |-> v, path |-> p, handlers |-> h]

Work_PostCreate_ValidationFirst ==
  Route("POST", <<Lit("create")>>,
        <<Valid("createWorkValidation"), Perm("can_create_work"), Ctrl("create")>>)
Work_PostCreate ==
  Route("POST", <<Lit("create")>>,
        <<Perm("can_create_work"), Valid("createWorkValidation"), Ctrl("create")>>)
Work_GetAll ==
  Route("GET", <<Lit("get")>>, <<Perm("can_view_zone_admin"), Ctrl("findAll")>>)
Work_GetOne ==
  Route("GET", <<Lit("get"), Param("workId")>>, <<Perm("can_view_work"), Ctrl("findOne")>>)
Work_Delete ==
  Route("DELETE", <<Param("workId")>>, <<Perm("can_delete_zone_admin"), Ctrl("deleteOne")>>)
Work_PostAssign ==
  Route("POST", <<Lit("assign"), Param("workId")>>,
        <<Perm("can_update_work"), Ctrl("assignWorkToSector")>>)
Work_GetByUserId ==
  Route("GET", <<Lit("getByUserId")>>, <<Perm("can_view_work"), Ctrl("getWorkByUserId")>>)
Work_PostPickWork ==
  Route("POST", <<Lit("pickWork")>>, <<Perm("can_update_work"), Ctrl("pickWork")>>)
Work_PostWeeklyTask ==
  Route("POST", <<Lit("weeklyTask")>>,
        <<Perm("can_create_weeklyTask"), Ctrl("createWeaklyTask")>>)
Work_GetWeeklyTaskById ==
  Route("GET", <<Lit("weeklyTask"), Param("weekly_task_id")>>,
        <<Perm("can_view_weeklyTask"), Ctrl("getWeeklyTaskById")>>)
Work_GetWeeklyTask ==
  Route("GET", <<Lit("weeklyTask"), Param("workId")>>,
        <<Perm("can_view_weeklyTask"), Ctrl("getWeeklyTask")>>)
Work_PutWeeklyTask_NoValidation ==
  Route("PUT", <<Lit("weeklyTask"), Param("weekly_task_id")>>,
        <<Perm("can_update_weeklyTask"), Ctrl("updateWeeklyTask")>>)
Work_PutWeeklyTask ==
  Route("PUT", <<Lit("weeklyTask"), Param("weekly_task_id")>>,
        <<Perm("can_update_weeklyTask"), Valid("updateWeaklyTaskValidation"),
          Ctrl("updateWeeklyTask")>>)

\* work.routes.js, in registration order
WorkRoutes ==
  << Work_PostCreate, Work_GetAll, Work_GetOne, Work_Delete, Work_PostAssign,
     Work_GetByUserId, Work_PostPickWork, Work_PostWeeklyTask,
     Work_GetWeeklyTaskById, Work_GetWeeklyTask, Work_PutWeeklyTask >>

Zone_PostCreate ==
  Route("POST", <<Lit("create")>>,
        <<Perm("can_create_zone_admin"), Valid("createZoneAdminValidation"), Ctrl("create")>>)
Zone_GetAll ==
  Route("GET", <<Lit("get")>>, <<Perm("can_view_zone_admin"), Ctrl("findAll")>>)
Zone_GetOne ==
  Route("GET", <<Lit("get"), Param("zone_user_id")>>,
        <<Perm("can_view_zone_admin"), Ctrl("findOne")>>)
Zone_Delete ==
  Route("DELETE", <<Param("zone_user_id")>>,
        <<Perm("can_delete_zone_admin"), Ctrl("deleteOne")>>)

\* the zone router, in registration order
ZoneRoutes == << Zone_PostCreate, Zone_GetAll, Zone_GetOne, Zone_Delete >>

Group_PostCreate ==
  Route("POST", <<Lit("create")>>,
        <<Perm("can_create_group"), Valid("createGroupValidation"), Ctrl("create")>>)
Group_GetAll ==
  Route("GET", <<Lit("get")>>, <<Perm("can_view_group"), Ctrl("findAll")>>)
Group_GetOne ==
  Route("GET", <<Lit("get"), Param("group_id")>>,
        <<Perm("can_view_sector"), Ctrl("findOne")>>)
Group_Delete ==
  Route("DELETE", <<Lit("delete"), Param("woreda_id")>>,
        <<Perm("can_delete_woreda_admin"), Ctrl("deleteOne")>>)

GroupRoutes_WithDelete == << Group_PostCreate, Group_GetAll, Group_GetOne, Group_Delete >>
\* the group router, in registration order (the delete route is commented out)
GroupRoutes == << Group_PostCreate, Group_GetAll, Group_GetOne >>

Routers == {"work", "zone", "group"}
RoutesOf(router) ==
  CASE router = "work" -> WorkRoutes
    [] router = "zone" -> ZoneRoutes
    [] router = "group" -> GroupRoutes
    [] OTHER -> << >>

\* express path matching: a literal segment matches itself, a :param any segment
Match(path, segs) ==
  /\ Len(path) = Len(segs)
  /\ \A i \in 1..Len(path) : path[i].kind = "param" \/ path[i].name = segs[i]

Matching(router, verb, segs) ==
  {i \in 1..Len(RoutesOf(router)) :
     /\ RoutesOf(router)[i].verb = verb
     /\ Match(RoutesOf(router)[i].path, segs)}

\* express dispatch: the first registered route that matches, 0 when none does
Dispatch(router, verb, segs) ==
  LET m == Matching(router, verb, segs)
  IN  IF m = {} THEN 0 ELSE CHOOSE i \in m : \A j \in m : i <= j

\* ---------------------------------------------------------------- schema
\* column defaults of the WeeklyTask table
WeeklyTaskDefaults_Assigned == [status |-> PickedStatus, pickedBy |-> NULL]
WeeklyTaskDefaults == [status |-> "unassigned", pickedBy |-> NULL]

NewWeeklyTask(id, workId, weekNumber, sectorId) ==
  [weekly_task_id |-> id, status |-> WeeklyTaskDefaults.status, workId |-> workId,
   weekNumber |-> weekNumber, sectorId |-> sectorId,
   pickedBy |-> WeeklyTaskDefaults.pickedBy]

NewWork == [status |-> "unassigned", sectors |-> {}]

\* ------------------------------------------------------------------ state
VARIABLES works, nextWork, tasks, claimed, zones, nextZone, groups, reqs

vars == <<works, nextWork, tasks, claimed, zones, nextZone, groups, reqs>>
store == <<works, nextWork, tasks, claimed, zones, nextZone, groups>>

Slots == 1..MaxReqs

Req(router, verb, segs, id, valid, sector_ids, status, user) ==
  [router |-> router, verb |-> verb, segs |-> segs, id |-> id, valid |-> valid,
   sector_ids |-> sector_ids, status |-> status, user |-> user]

Caller == <<"u", 1>>
NoReq == Req("none", "", << >>, NoId, TRUE, << >>, "", Caller)
IdleSlot == [st |-> "idle", req |-> NoReq, route |-> 0, stage |-> 0, ran |-> << >>,
             resp |-> 0, free |-> FALSE]

TaskExists(id) == id[1] = "t" /\ id[2] \in 1..Len(tasks)

Init ==
  /\ works = << >>
  /\ nextWork = 0
  /\ tasks = << >>
  /\ claimed = {}
  /\ zones = << >>
  /\ nextZone = 0
  /\ groups = << >>
  /\ reqs = [s \in Slots |-> IdleSlot]


\* ------------------------------------------------------- request pipeline
Busy(s) == reqs[s].st = "run"
RouteOf(s) == RoutesOf(reqs[s].req.router)[reqs[s].route]
Handler(s) == RouteOf(s).handlers[reqs[s].stage]
At(s, router, name) ==
  /\ Busy(s)
  /\ reqs[s].req.router = router
  /\ Handler(s) = Ctrl(name)

\* the handler calls next(): the following handler of the route runs
Advance(s) ==
  reqs' = [reqs EXCEPT ![s].stage = @ + 1, ![s].ran = Append(@, Handler(s))]

\* the handler sends the response: no later handler of the route runs
Respond(s, code) ==
  reqs' = [reqs EXCEPT ![s].st = "done", ![s].resp = code,
                       ![s].ran = Append(@, Handler(s))]

\* a request arrives and the router selects its route
Arrive(s, r) ==
  /\ reqs[s].st = "idle"
  /\ LET i == Dispatch(r.router, r.verb, r.segs)
     IN  reqs' = [reqs EXCEPT ![s] =
                    [st |-> IF i = 0 THEN "done" ELSE "run", req |-> r, route |-> i,
                     stage |-> IF i = 0 THEN 0 ELSE 1, ran |-> << >>,
                     resp |-> IF i = 0 THEN 404 ELSE 0,
                     free |-> /\ r.segs = <<"pickWork">>
                              /\ TaskExists(r.id)
                              /\ tasks[r.id[2]].pickedBy = NULL]]
  /\ UNCHANGED store

\* the response has been sent and the connection is released
Finish(s) ==
  /\ reqs[s].st = "done"
  /\ reqs' = [reqs EXCEPT ![s] = IdleSlot]
  /\ UNCHANGED store

AuthCodes == {401, 403}

checkPermission(s) ==
  /\ Busy(s)
  /\ Handler(s).kind = "perm"
  /\ \/ Advance(s)
     \/ \E code \in AuthCodes : Respond(s, code)
  /\ UNCHANGED store

\* what every validation step does with the payload: next() or a 400
Validate(s) == IF reqs[s].req.valid THEN Advance(s) ELSE Respond(s, 400)

createWorkValidation(s) ==
  /\ Busy(s)
  /\ Handler(s) = Valid("createWorkValidation")
  /\ Validate(s)
  /\ UNCHANGED store

updateWeaklyTaskValidation(s) ==
  /\ Busy(s)
  /\ Handler(s) = Valid("updateWeaklyTaskValidation")
  /\ Validate(s)
  /\ UNCHANGED store

createZoneAdminValidation(s) ==
  /\ Busy(s)
  /\ Handler(s) = Valid("createZoneAdminValidation")
  /\ Validate(s)
  /\ UNCHANGED store

createGroupValidation(s) ==
  /\ Busy(s)
  /\ Handler(s) = Valid("createGroupValidation")
  /\ Validate(s)
  /\ UNCHANGED store

\* ------------------------------------------------------- work controllers
work_create(s) ==
  /\ At(s, "work", "create")
  /\ nextWork < MaxWorks
  /\ nextWork' = nextWork + 1
  /\ works' = [w \in DOMAIN works \cup {<<"w", nextWork + 1>>} |->
                 IF w \in DOMAIN works THEN works[w] ELSE NewWork]
  /\ Respond(s, 200)
  /\ UNCHANGED <<tasks, claimed, zones, nextZone, groups>>

work_findAll(s) ==
  /\ At(s, "work", "findAll")
  /\ Respond(s, 200)
  /\ UNCHANGED store

work_findOne(s) ==
  /\ At(s, "work", "findOne")
  /\ Respond(s, IF reqs[s].req.id \in DOMAIN works THEN 200 ELSE 404)
  /\ UNCHANGED store

work_deleteOne_Always200(s) ==
  /\ At(s, "work", "deleteOne")
  /\ works' = [w \in DOMAIN works \ {reqs[s].req.id} |-> works[w]]
  /\ Respond(s, 200)
  /\ UNCHANGED <<nextWork, tasks, claimed, zones, nextZone, groups>>

work_deleteOne(s) ==
  /\ At(s, "work", "deleteOne")
  /\ IF reqs[s].req.id \in DOMAIN works
       THEN /\ works' = [w \in DOMAIN works \ {reqs[s].req.id} |-> works[w]]
            /\ Respond(s, 200)
       ELSE /\ works' = works
            /\ Respond(s, 404)
  /\ UNCHANGED <<nextWork, tasks, claimed, zones, nextZone, groups>>

assignWorkToSector(s) ==
  /\ At(s, "work", "assignWorkToSector")
  /\ IF reqs[s].req.id \in DOMAIN works
       THEN /\ works' = [works EXCEPT ![reqs[s].req.id].sectors =
                                        @ \cup Range(reqs[s].req.sector_ids)]
            /\ Respond(s, 200)
       ELSE /\ works' = works
            /\ Respond(s, 404)
  /\ UNCHANGED <<nextWork, tasks, claimed, zones, nextZone, groups>>

getWorkByUserId(s) ==
  /\ At(s, "work", "getWorkByUserId")
  /\ Respond(s, 200)
  /\ UNCHANGED store

\* the conditional update: the row is written only where pickedBy is null
PickCondition_Unconditional(t) == TRUE
PickCondition_Inverted(t) == tasks[t].pickedBy # NULL
PickCondition(t) == tasks[t].pickedBy = NULL

pickWork(s) ==
  /\ At(s, "work", "pickWork")
  /\ LET id == reqs[s].req.id
         t  == id[2]
     IN  IF ~TaskExists(id)
           THEN /\ Respond(s, 404)
                /\ UNCHANGED <<tasks, claimed>>
           ELSE IF PickCondition(t)
             THEN /\ tasks' = [tasks EXCEPT ![t].pickedBy = reqs[s].req.user,
                                            ![t].status = PickedStatus]
                  /\ claimed' = claimed \cup {id}
                  /\ Respond(s, 200)
             ELSE /\ Respond(s, 409)
                  /\ UNCHANGED <<tasks, claimed>>
  /\ UNCHANGED <<works, nextWork, zones, nextZone, groups>>

createWeaklyTask(s) ==
  /\ At(s, "work", "createWeaklyTask")
  /\ LET ids == reqs[s].req.sector_ids
         n   == Len(tasks)
     IN  /\ n + Len(ids) <= MaxTasks
         /\ tasks' = tasks \o
              [i \in 1..Len(ids) |->
                 NewWeeklyTask(<<"t", n + i>>, reqs[s].req.id,
                               CHOOSE w \in WeekNumbers : TRUE, ids[i])]
  /\ Respond(s, 200)
  /\ UNCHANGED <<works, nextWork, claimed, zones, nextZone, groups>>

getWeeklyTaskById(s) ==
  /\ At(s, "work", "getWeeklyTaskById")
  /\ Respond(s, IF TaskExists(reqs[s].req.id) THEN 200 ELSE 404)
  /\ UNCHANGED store

\* registered behind getWeeklyTaskById on the same verb and path shape: no
\* request is dispatched here, so no specification below lists it
getWeeklyTask(s) ==
  /\ At(s, "work", "getWeeklyTask")
  /\ Respond(s, 200)
  /\ UNCHANGED store

updateWeeklyTask(s) ==
  /\ At(s, "work", "updateWeeklyTask")
  /\ LET id == reqs[s].req.id
     IN  IF TaskExists(id)
           THEN /\ tasks' = [tasks EXCEPT ![id[2]].status = reqs[s].req.status]
                /\ Respond(s, 200)
           ELSE /\ tasks' = tasks
                /\ Respond(s, 404)
  /\ UNCHANGED <<works, nextWork, claimed, zones, nextZone, groups>>

\* ------------------------------------------------------- zone controllers
zone_create(s) ==
  /\ At(s, "zone", "create")
  /\ nextZone < MaxZones
  /\ nextZone' = nextZone + 1
  /\ zones' = [z \in DOMAIN zones \cup {<<"z", nextZone + 1>>} |->
                 IF z \in DOMAIN zones THEN zones[z] ELSE [zone_name |-> "zone"]]
  /\ Respond(s, 200)
  /\ UNCHANGED <<works, nextWork, tasks, claimed, groups>>

zone_findAll(s) ==
  /\ At(s, "zone", "findAll")
  /\ Respond(s, 200)
  /\ UNCHANGED store

zone_findOne(s) ==
  /\ At(s, "zone", "findOne")
  /\ Respond(s, IF reqs[s].req.id \in DOMAIN zones THEN 200 ELSE 404)
  /\ UNCHANGED store

zone_deleteOne(s) ==
  /\ At(s, "zone", "deleteOne")
  /\ IF reqs[s].req.id \in DOMAIN zones
       THEN /\ zones' = [z \in DOMAIN zones \ {reqs[s].req.id} |-> zones[z]]
            /\ Respond(s, 200)
       ELSE /\ zones' = zones
            /\ Respond(s, 404)
  /\ UNCHANGED <<works, nextWork, tasks, claimed, nextZone, groups>>

\* ------------------------------------------------------ group controllers
group_create(s) ==
  /\ At(s, "group", "create")
  /\ Len(groups) < MaxGroups
  /\ groups' = Append(groups, [group_id |-> <<"g", Len(groups) + 1>>,
                               group_name |-> "group"])
  /\ Respond(s, 200)
  /\ UNCHANGED <<works, nextWork, tasks, claimed, zones, nextZone>>

group_findAll(s) ==
  /\ At(s, "group", "findAll")
  /\ Respond(s, 200)
  /\ UNCHANGED store

group_findOne(s) ==
  /\ At(s, "group", "findOne")
  /\ Respond(s, IF reqs[s].req.id[1] = "g" /\ reqs[s].req.id[2] \in 1..Len(groups)
                  THEN 200 ELSE 404)
  /\ UNCHANGED store


\* ------------------------------------------------------------- requests
\* "<id>" stands for the path segment that carries the request's id
IdSeg == "<id>"
Plain(router, verb, segs) == Req(router, verb, segs, NoId, TRUE, << >>, "", Caller)
ById(router, verb, segs, id) == Req(router, verb, segs, id, TRUE, << >>, "", Caller)
WithBody(router, verb, segs, valid) ==
  Req(router, verb, segs, NoId, valid, << >>, "", Caller)

PickRequests(T, U) ==
  {Req("work", "POST", <<"pickWork">>, t, TRUE, << >>, "", u) : t \in T, u \in U}
WeeklyTaskCreateRequests(W, L) ==
  {Req("work", "POST", <<"weeklyTask">>, w, TRUE, ids, "", Caller) : w \in W, ids \in L}
WeeklyTaskUpdateRequests(T, S) ==
  {Req("work", "PUT", <<"weeklyTask", IdSeg>>, t, TRUE, << >>, st, Caller) :
     t \in T, st \in S}
  \cup {Req("work", "PUT", <<"weeklyTask", IdSeg>>, t, FALSE, << >>, "", Caller) : t \in T}
WorkCreateRequests == {WithBody("work", "POST", <<"create">>, v) : v \in BOOLEAN}
WorkDeleteRequests == {ById("work", "DELETE", <<IdSeg>>, w) : w \in WorkIds}

FirstWork == {<<"w", 1>>}
FirstTask == {<<"t", 1>>}

\* one request of every shape the three routers are sent
RoutingRequests ==
  WorkCreateRequests \cup WorkDeleteRequests
  \cup {Plain("work", "GET", <<"get">>), Plain("work", "GET", <<"getByUserId">>)}
  \cup {ById("work", "GET", <<"get", IdSeg>>, w) : w \in FirstWork}
  \cup {Req("work", "POST", <<"assign", IdSeg>>, w, TRUE, <<1>>, "", Caller) : w \in WorkIds}
  \cup {ById("work", "GET", <<"weeklyTask", IdSeg>>, x) : x \in FirstWork \cup FirstTask}
  \cup PickRequests(FirstTask, {Caller})
  \cup WeeklyTaskCreateRequests(FirstWork, {<<1>>})
  \cup WeeklyTaskUpdateRequests(FirstTask, {"done"})
  \cup {WithBody("zone", "POST", <<"create">>, v) : v \in BOOLEAN}
  \cup {Plain("zone", "GET", <<"get">>)}
  \cup {ById("zone", "GET", <<"get", IdSeg>>, z) : z \in ZoneIds}
  \cup {ById("zone", "DELETE", <<IdSeg>>, z) : z \in ZoneIds}
  \cup {WithBody("group", "POST", <<"create">>, v) : v \in BOOLEAN}
  \cup {Plain("group", "GET", <<"get">>)}
  \cup {ById("group", "GET", <<"get", IdSeg>>, g) : g \in GroupIds}
  \cup {ById("group", "DELETE", <<"delete", IdSeg>>, g) : g \in GroupIds}
  \cup {ById("group", "DELETE", <<IdSeg>>, g) : g \in GroupIds}
  \cup {ById("group", "PUT", <<IdSeg>>, g) : g \in GroupIds}

\* the requests that write Work and WeeklyTask rows: batches of every length
\* up to MaxBatch over every sector id, picks and patches of the first row
TaskRequests ==
  WorkCreateRequests \cup WorkDeleteRequests
  \cup PickRequests(FirstTask, {Caller})
  \cup WeeklyTaskCreateRequests(FirstWork, SeqsUpTo(SectorIds, MaxBatch))
  \cup WeeklyTaskUpdateRequests(FirstTask, PatchStatuses)

\* the requests that compete for one WeeklyTask
PickingRequests ==
  PickRequests(FirstTask, Users)
  \cup WeeklyTaskCreateRequests(FirstWork, {<<1>>})
  \cup WeeklyTaskUpdateRequests(FirstTask, {"unassigned"})

\* --------------------------------------------------------- specifications
\* requests served one at a time, over every route of the three routers
Next ==
  \E s \in {1} :
    \/ \E r \in RoutingRequests : Arrive(s, r)
    \/ Finish(s)
    \/ checkPermission(s)
    \/ createWorkValidation(s)
    \/ updateWeaklyTaskValidation(s)
    \/ createZoneAdminValidation(s)
    \/ createGroupValidation(s)
    \/ work_create(s)
    \/ work_findAll(s)
    \/ work_findOne(s)
    \/ work_deleteOne(s)
    \/ assignWorkToSector(s)
    \/ getWorkByUserId(s)
    \/ pickWork(s)
    \/ createWeaklyTask(s)
    \/ getWeeklyTaskById(s)
    \/ updateWeeklyTask(s)
    \/ zone_create(s)
    \/ zone_findAll(s)
    \/ zone_findOne(s)
    \/ zone_deleteOne(s)
    \/ group_create(s)
    \/ group_findAll(s)
    \/ group_findOne(s)

Spec == Init /\ [][Next]_vars

\* requests served one at a time, over the routes that write Work and
\* WeeklyTask rows
NextTasks ==
  \E s \in {1} :
    \/ \E r \in TaskRequests : Arrive(s, r)
    \/ Finish(s)
    \/ checkPermission(s)
    \/ createWorkValidation(s)
    \/ updateWeaklyTaskValidation(s)
    \/ work_create(s)
    \/ work_deleteOne(s)
    \/ pickWork(s)
    \/ createWeaklyTask(s)
    \/ updateWeeklyTask(s)

SpecTasks == Init /\ [][NextTasks]_vars

\* MaxReqs requests in flight at once, their handlers interleaved
NextPick ==
  \E s \in Slots :
    \/ \E r \in PickingRequests : Arrive(s, r)
    \/ Finish(s)
    \/ checkPermission(s)
    \/ updateWeaklyTaskValidation(s)
    \/ pickWork(s)
    \/ createWeaklyTask(s)
    \/ updateWeeklyTask(s)

SpecPick == Init /\ [][NextPick]_vars


\* -------------------------------------------------------------- properties
Active(s) == reqs[s].st # "idle"
Done(s) == reqs[s].st = "done"
RanController(s) == \E i \in 1..Len(reqs[s].ran) : reqs[s].ran[i].kind = "ctrl"
\* slot s runs its controller `name` in this step
CtrlStep(s, name) == At(s, "work", name) /\ reqs'[s].st = "done"
IsPick(s) == Active(s) /\ reqs[s].req.segs = <<"pickWork">>

\* two finished pickWork requests of different users on one task that was
\* unclaimed when each of them arrived, both past the permission check
Competing(a, b) ==
  /\ a # b
  /\ IsPick(a) /\ IsPick(b)
  /\ Done(a) /\ Done(b)
  /\ RanController(a) /\ RanController(b)
  /\ reqs[a].req.id = reqs[b].req.id
  /\ reqs[a].req.user # reqs[b].req.user
  /\ reqs[a].free /\ reqs[b].free

C2_PickedIsAssigned ==
  \A i \in 1..Len(tasks) :
    /\ (tasks[i].pickedBy = NULL) <=> (tasks[i].weekly_task_id \notin claimed)
    /\ tasks[i].pickedBy # NULL => tasks[i].status # "unassigned"

ListedPermission(r) ==
  CASE r.router = "work" /\ r.verb = "POST" /\ r.segs = <<"create">> -> "can_create_work"
    [] r.router = "work" /\ r.verb = "GET" /\ r.segs = <<"get">> -> "can_view_zone_admin"
    [] r.router = "work" /\ r.verb = "GET" /\ r.segs = <<"get", IdSeg>> -> "can_view_work"
    [] r.router = "work" /\ r.verb = "DELETE" /\ r.segs = <<IdSeg>> -> "can_delete_zone_admin"
    [] r.router = "work" /\ r.verb = "POST" /\ r.segs = <<"assign", IdSeg>> -> "can_update_work"
    [] r.router = "work" /\ r.verb = "GET" /\ r.segs = <<"getByUserId">> -> "can_view_work"
    [] r.router = "work" /\ r.verb = "POST" /\ r.segs = <<"pickWork">> -> "can_update_work"
    [] r.router = "work" /\ r.verb = "POST" /\ r.segs = <<"weeklyTask">> -> "can_create_weeklyTask"
    [] r.router = "work" /\ r.verb = "GET" /\ r.segs = <<"weeklyTask", IdSeg>> -> "can_view_weeklyTask"
    [] r.router = "work" /\ r.verb = "PUT" /\ r.segs = <<"weeklyTask", IdSeg>> -> "can_update_weeklyTask"
    [] r.router = "zone" /\ r.verb = "POST" /\ r.segs = <<"create">> -> "can_create_zone_admin"
    [] r.router = "zone" /\ r.verb = "GET" /\ r.segs = <<"get">> -> "can_view_zone_admin"
    [] r.router = "zone" /\ r.verb = "GET" /\ r.segs = <<"get", IdSeg>> -> "can_view_zone_admin"
    [] r.router = "zone" /\ r.verb = "DELETE" /\ r.segs = <<IdSeg>> -> "can_delete_zone_admin"
    [] r.router = "group" /\ r.verb = "POST" /\ r.segs = <<"create">> -> "can_create_group"
    [] r.router = "group" /\ r.verb = "GET" /\ r.segs = <<"get">> -> "can_view_group"
    [] r.router = "group" /\ r.verb = "GET" /\ r.segs = <<"get", IdSeg>> -> "can_view_sector"
    [] OTHER -> "none"

\* the routes listed with a validation step
ListedValidation(r) ==
  \/ r.verb = "POST" /\ r.segs = <<"create">>
  \/ r.router = "work" /\ r.verb = "PUT" /\ r.segs = <<"weeklyTask", IdSeg>>

\* the handlers that have run for slot s: the listed permission check first,
\* a validation step only second and only on a route that has one, a
\* controller only after both, and nothing after a rejection
HandlerOrder(s) ==
  LET ran == reqs[s].ran
      r   == reqs[s].req
  IN  /\ Len(ran) >= 1 => ran[1] = Perm(ListedPermission(r))
      /\ \A i \in 2..Len(ran) : ran[i].kind # "perm"
      /\ \A i \in 1..Len(ran) : ran[i].kind = "valid" => i = 2 /\ ListedValidation(r)
      /\ \A i \in 1..Len(ran) :
           ran[i].kind = "ctrl" => i = Len(ran) /\ i = (IF ListedValidation(r) THEN 3 ELSE 2)
      /\ reqs[s].resp \in AuthCodes => Len(ran) = 1 /\ Done(s)

\* C4: for every request the listed permission check runs first, then the
\* validation step where the route has one, then the controller; a request
\* the permission check rejects runs no other handler, and the rejecting step
\* changes no stored entity.
C4_PermissionFirst ==
  /\ [](\A s \in Slots : Active(s) => HandlerOrder(s))
  /\ [][(\E s \in Slots : reqs'[s].resp \in AuthCodes) => store' = store]_vars

C4_Witness ==
  \E s \in Slots :
    /\ Done(s)
    /\ reqs[s].resp = 200
    /\ Len(reqs[s].ran) = 3
    /\ reqs[s].ran[1].kind = "perm"
    /\ reqs[s].ran[2].kind = "valid"
    /\ reqs[s].ran[3].kind = "ctrl"

IsWeeklyTaskGet(s) ==
  /\ Active(s)
  /\ reqs[s].req.router = "work"
  /\ reqs[s].req.verb = "GET"
  /\ reqs[s].req.segs = <<"weeklyTask", IdSeg>>
ControllerOf(s) ==
  IF reqs[s].route = 0 THEN Ctrl("none")
  ELSE RouteOf(s).handlers[Len(RouteOf(s).handlers)]

\* C5: a GET /structure/work/weeklyTask/<x> carrying a work id is dispatched
\* to getWeeklyTask, and one carrying a weekly task id to getWeeklyTaskById.
C5_BothLookupsReachable ==
  \A s \in Slots :
    IsWeeklyTaskGet(s) =>
      /\ reqs[s].req.id[1] = "w" => ControllerOf(s) = Ctrl("getWeeklyTask")
      /\ reqs[s].req.id[1] = "t" => ControllerOf(s) = Ctrl("getWeeklyTaskById")

\* C6: createWeeklyTask for a work id and N sector ids appends exactly N
\* WeeklyTask rows, the i-th for the i-th sector id, each with a fresh id, the
\* work id, status 'unassigned' and pickedBy null, and leaves the earlier
\* rows as they were.
C6_BatchCreatesN ==
  [][\A s \in Slots :
       CtrlStep(s, "createWeaklyTask") =>
         LET ids == reqs[s].req.sector_ids
             n   == Len(tasks)
         IN  /\ Len(tasks') = n + Len(ids)
             /\ SubSeq(tasks', 1, n) = tasks
             /\ \A i \in 1..Len(ids) :
                  /\ tasks'[n + i].sectorId = ids[i]
                  /\ tasks'[n + i].workId = reqs[s].req.id
                  /\ tasks'[n + i].status = "unassigned"
                  /\ tasks'[n + i].pickedBy = NULL
                  /\ \A j \in 1..(n + Len(ids)) :
                       j # n + i => tasks'[j].weekly_task_id # tasks'[n + i].weekly_task_id]_vars

C6_Witness ==
  \E s \in Slots :
    /\ Done(s)
    /\ reqs[s].req.segs = <<"weeklyTask">>
    /\ reqs[s].resp = 200
    /\ Len(reqs[s].req.sector_ids) = 2
    /\ Len(tasks) = 3
    /\ tasks[1].pickedBy # NULL

\* C7: every stored WeeklyTask names a Work that exists and a sector that
\* exists.
C7_TaskReferencesExist ==
  \A i \in 1..Len(tasks) :
    /\ tasks[i].workId \in DOMAIN works
    /\ tasks[i].sectorId \in ExistingSectors

\* C8: on a route with a validation step, a request with a malformed payload
\* never runs the controller, is answered 400 once the permission check has
\* let it through, and none of its steps changes a stored entity.
C8_InvalidPayloadStops ==
  /\ [](\A s \in Slots :
          (Active(s) /\ ListedValidation(reqs[s].req) /\ ~reqs[s].req.valid) =>
            /\ ~RanController(s)
            /\ (Done(s) /\ Len(reqs[s].ran) >= 2) => reqs[s].resp = 400)
  /\ [][\A s \in Slots :
          (Busy(s) /\ ~reqs[s].req.valid /\ reqs'[s] # reqs[s]) => store' = store]_vars

C8_Witness ==
  \E s \in Slots :
    /\ Done(s)
    /\ reqs[s].req.verb = "PUT"
    /\ ~reqs[s].req.valid
    /\ reqs[s].resp = 400
    /\ TaskExists(reqs[s].req.id)

\* C9: deleting a work id that is not stored, updating a weekly task id that
\* is not stored and assigning a work id that is not stored each answer 404
\* and change no stored entity.
C9_AbsentIsNotFound ==
  [][\A s \in Slots :
       /\ (CtrlStep(s, "deleteOne") /\ reqs[s].req.id \notin DOMAIN works)
            => reqs'[s].resp = 404 /\ store' = store
       /\ (CtrlStep(s, "assignWorkToSector") /\ reqs[s].req.id \notin DOMAIN works)
            => reqs'[s].resp = 404 /\ store' = store
       /\ (CtrlStep(s, "updateWeeklyTask") /\ ~TaskExists(reqs[s].req.id))
            => reqs'[s].resp = 404 /\ store' = store]_vars

C9_Witness ==
  \E s \in Slots :
    /\ Done(s)
    /\ reqs[s].req.router = "work"
    /\ reqs[s].req.verb = "DELETE"
    /\ reqs[s].resp = 404
    /\ DOMAIN works # {}
    /\ reqs[s].req.id \notin DOMAIN works

\* C10: a PUT or DELETE sent to the group router matches no route and is
\* answered 404, and no step of a group request changes or removes a stored
\* Group.
C10_GroupsAreKept ==
  /\ [](\A s \in Slots :
          (Active(s) /\ reqs[s].req.router = "group"
             /\ reqs[s].req.verb \in {"PUT", "DELETE"})
            => reqs[s].route = 0 /\ reqs[s].resp = 404)
  /\ [][(\E s \in Slots : reqs'[s].req.router = "group" \/ reqs[s].req.router = "group")
          => /\ Len(groups') >= Len(groups)
             /\ SubSeq(groups', 1, Len(groups)) = groups]_vars

C10_Witness ==
  \E s \in Slots :
    /\ Done(s)
    /\ reqs[s].req.router = "group"
    /\ reqs[s].req.verb = "DELETE"
    /\ reqs[s].req.segs = <<"delete", IdSeg>>
    /\ reqs[s].resp = 404
    /\ Len(groups) >= 1

====
